---- MODULE Spec2Model ----
(***************************************************************************)
(* Diarization post-processing of recipes/AMI/Diarization/experiment.py:   *)
(* the boundary resolver of do_sc (sort, merge_ssegs_same_speaker,         *)
(* distribute_overlap), the RTTM writer, the agglomerative trace back      *)
(* (trace_back_cluster_labels), the loop of diarizer over the recordings   *)
(* and the scorer it feeds; and of speechbrain/nnet/losses.py the          *)
(* permutation invariant loss (PitWrapper) and truncate.                   *)
(*                                                                         *)
(* Time is counted in ticks of half a second: an input time of t seconds   *)
(* is the even number 2*t, so that overlap / 2.0 of the source is exact.   *)
(* A sub-segment is the Python list [rec_id, sseg_start, sseg_end,         *)
(* spkr_id]; the lists are mutable objects shared between the lists that   *)
(* hold them, so the model keeps a heap (object id -> value) and lists of  *)
(* object ids.                                                             *)
(***************************************************************************)
EXTENDS Integers, Sequences, FiniteSets, TLC

\* ---------------------------------------------------------------- bounds
MaxLen == 4          \* longest list of sub-segments of the general inputs
MaxTime == 3         \* latest time, in seconds, of the general inputs
MaxUnsorted == 3     \* longest list of sub-segments that is given in any order
MaxN == 4            \* largest number of embeddings of the trace back

Speakers == {"A", "B"}
RecId == "R1"

VARIABLES
    pc,        \* position in do_sc: "sort", "merge", "distribute", "write", "merged_twice", "raised", "idle"
    heap,      \* object id -> [rec, start, end, spkr], the sub-segment objects
    lol,       \* the variable lol of do_sc: a list of object ids
    srt,       \* values of lol after lol.sort
    mrg,       \* values of the list returned by merge_ssegs_same_speaker, at its return
    acc,       \* value of merge's local sseg (the accumulator) at its return: <<>> or <<seg>>
    ovl,       \* the pairs <<sseg, next_sseg>> (values at the test) that distribute_overlap found overlapping
    exc,       \* the exception that ended the run, "" if none
    rttm,      \* the file out_rttm_file: <<>> while it does not exist, else <<list of lines>>
    tpc,       \* position in trace_back_cluster_labels: "init", "loop", "done", "idle"
    N,         \* len(cluster_map_traverse) + 1
    oracle_num_spkrs,   \* 0 stands for a falsy value (None or 0)
    clusters,  \* cluster id -> list of original indices
    i,         \* loop counter of the trace back
    dpc,       \* position in diarizer: "start", "loop", "done", "raised", "idle"
    full_csv,  \* the first column (the ID) of every row of full_csv, the header row first
    ref_rttm,  \* the lines of the reference RTTM file, each with its newline
    spkr_info, \* the SPKR-INFO lines kept by diarizer
    all_rec_ids,  \* the sorted recording ids of diarizer
    rk,        \* index in all_rec_ids of the recording diarized next
    dir,       \* the files of out_rttm_dir: file name -> list of lines
    grouped,   \* per recording diarized, the rows that prepare_subset_csv kept for it
    used_k,    \* per recording diarized, the value of num_spkrs
    dexc,      \* the exception that ended diarizer, "" if none
    wpc,       \* worker -> position in do_sc: "build", "sort", "merge", "mergeloop", "distribute", "distloop", "write", "done", "raised", "idle"
    wheap,     \* the objects of the process that runs the workers: object id -> sub-segment
    wlol,      \* worker -> the variable lol of its pass: a list of object ids
    wj,        \* worker -> index of the loop of its pass
    wsseg,     \* worker -> the local sseg of its pass, an object id (0: unbound)
    wnew,      \* worker -> the local new_lol of its pass
    wexc,      \* worker -> the exception that ended it, "" if none
    wfile,     \* worker -> its out_rttm_file: <<>> while it does not exist, else <<list of lines>>
    win,       \* worker -> the sub-segments and labels it was given, in the order of segset
    spc,       \* position in the scorer: "score", "done", "idle"
    srecs,     \* per recording, the error durations and the scored duration
    sk,        \* index of the recording scored next
    sums,      \* the durations summed over the recordings scored so far
    rates,     \* the four numbers returned by the scorer, each a fraction num / den
    ppc,       \* position in PitWrapper: "loop", "returned", "reordered", "idle"
    preds,     \* the tensor preds: example -> source -> value
    ptargets,  \* the tensor targets: example -> source -> value
    pb,        \* the example that the loop of forward handles next
    losses,    \* the list losses of forward, each loss as the sum over the sources
    perms,     \* the list perms of forward
    reordered, \* the tensor returned by reorder_tensor(preds, perms), <<>> before
    trpc,      \* position in truncate: "call", "returned", "raised", "idle"
    predictions,      \* the argument predictions, along its axis 1
    targets,          \* the argument targets, along its axis 1
    allowed_len_diff, \* the argument allowed_len_diff
    tret,      \* the pair returned by truncate, <<>> before and when it raised
    apc,  \* position in StreamingTransducerASR: "start", "chunks", "done", "raised", "idle"
    acall,  \* the method that was called: "transcribe_file_streaming" or "transcribe_file"
    hyps,  \* per chunk of the file, the pieces of the best hypothesis of the searcher
    ak,  \* number of chunks that the loop of transcribe_file_streaming has handled
    yielded,  \* the strings that transcribe_file_streaming has yielded, in order
    fpred,  \* the variable pred of transcribe_file
    aexc, \* the exception that ended the call, "" if none
    lpc,  \* position in the lexicon functions: "start", "written", "reading", "returned", "exited", "idle"
    lsrc,  \* where the lexicon file comes from: "written" by write_lexicon or "given"
    lexicon,  \* the argument lexicon of write_lexicon, a list of pairs <<word, tokens>>
    lfile,  \* the text of the lexicon file
    lk,  \* number of lines of the file that read_lexicon has handled
    lans,  \* the list ans of read_lexicon
    lexit, \* the exit status of sys.exit, 0 while the program runs
    qpc,  \* position in prepare_ami: "idle", "train", "dev", "test", "save", "returned", "skipped", "interrupted"
    qconf,  \* the configuration conf of the call of prepare_ami that runs or ran last
    qfiles,  \* the files of save_folder: what each holds, NoFile if it does not exist
    qrun,  \* the number of calls of prepare_ami so far; the running call has this number
    qdone, \* the numbers of the calls that ran to the end of the preparation
    zpc,  \* position in test_ConcatDatasetBatchSampler: "concat", "alone", "compare", "passed", "failed", "off"
    zsizes,  \* the number of elements of each dataset
    zorders,  \* per sampler, the order in which it draws the indices of its dataset
    zbatches,  \* the batches of indices that ConcatDatasetBatchSampler has yielded
    concat_data,  \* the list concat_data of the test
    non_cat_data  \* the list non_cat_data of the test

dvars == <<dpc, full_csv, ref_rttm, spkr_info, all_rec_ids, rk, dir, grouped, used_k, dexc>>
bvars == <<pc, heap, lol, srt, mrg, acc, ovl, exc, rttm>>
cvars == <<tpc, N, oracle_num_spkrs, clusters, i>>
wvars == <<wpc, wheap, wlol, wj, wsseg, wnew, wexc, wfile, win>>
svars == <<spc, srecs, sk, sums, rates>>
pvars == <<ppc, preds, ptargets, pb, losses, perms, reordered>>
tvars == <<trpc, predictions, targets, allowed_len_diff, tret>>
avars == <<apc, acall, hyps, ak, yielded, fpred, aexc>>
lvars == <<lpc, lsrc, lexicon, lfile, lk, lans, lexit>>
qvars == <<qpc, qconf, qfiles, qrun, qdone>>
zvars == <<zpc, zsizes, zorders, zbatches, concat_data, non_cat_data>>
vars == <<bvars, cvars, dvars, wvars, svars, pvars, tvars, avars, lvars, qvars, zvars>>
notB == <<cvars, dvars, wvars, svars, pvars, tvars, avars, lvars, qvars, zvars>>
notC == <<bvars, dvars, wvars, svars, pvars, tvars, avars, lvars, qvars, zvars>>
notD == <<bvars, cvars, wvars, svars, pvars, tvars, avars, lvars, qvars, zvars>>
notW == <<bvars, cvars, dvars, svars, pvars, tvars, avars, lvars, qvars, zvars>>
notS == <<bvars, cvars, dvars, wvars, pvars, tvars, avars, lvars, qvars, zvars>>
notP == <<bvars, cvars, dvars, wvars, svars, tvars, avars, lvars, qvars, zvars>>
notT == <<bvars, cvars, dvars, wvars, svars, pvars, avars, lvars, qvars, zvars>>
notA == <<bvars, cvars, dvars, wvars, svars, pvars, tvars, lvars, qvars, zvars>>
notL == <<bvars, cvars, dvars, wvars, svars, pvars, tvars, avars, qvars, zvars>>
notQ == <<bvars, cvars, dvars, wvars, svars, pvars, tvars, avars, lvars, zvars>>
notZ == <<bvars, cvars, dvars, wvars, svars, pvars, tvars, avars, lvars, qvars>>

\* ------------------------------------------------------------- helpers
Seg(s, e, k) == [rec |-> RecId, start |-> s, end |-> e, spkr |-> k]

\* the values of a list of objects
Values(h, l) == [j \in 1..Len(l) |-> h[l[j]]]

Last(s) == s[Len(s)]

\* ------------------------------------------------- boundary resolver
\* variant: touching segments (start2 = end1) are not overlapped
is_overlapped_strict(end1, start2) == IF start2 >= end1 THEN FALSE ELSE TRUE

is_overlapped(end1, start2) == IF start2 > end1 THEN FALSE ELSE TRUE

\* lol.sort(key=lambda x: float(x[1])): stable insertion by start time
RECURSIVE InsertByStart(_, _, _)
InsertByStart(h, sorted, x) ==
    IF sorted = <<>> THEN <<x>>
    ELSE IF h[Last(sorted)].start <= h[x].start THEN Append(sorted, x)
    ELSE Append(InsertByStart(h, SubSeq(sorted, 1, Len(sorted) - 1), x), Last(sorted))

RECURSIVE SortByStartFrom(_, _, _, _)
SortByStartFrom(h, l, j, sorted) ==
    IF j > Len(l) THEN sorted
    ELSE SortByStartFrom(h, l, j + 1, InsertByStart(h, sorted, l[j]))

SortByStart(h, l) == SortByStartFrom(h, l, 1, <<>>)

\* one iteration of the loop of merge_ssegs_same_speaker
MergeCond(h, sseg, next_sseg) ==
    is_overlapped(h[sseg].end, h[next_sseg].start) /\ h[sseg].spkr = h[next_sseg].spkr

RECURSIVE MergeLoop(_, _, _, _, _)
MergeLoop(h, l, j, sseg, new_lol) ==
    IF j > Len(l) THEN [heap |-> h, ret |-> new_lol, sseg |-> <<sseg>>, exc |-> ""]
    ELSE LET next_sseg == l[j] IN
         IF MergeCond(h, sseg, next_sseg)
         THEN MergeLoop([h EXCEPT ![sseg].end = h[next_sseg].end], l, j + 1, sseg, new_lol)
         ELSE MergeLoop(h, l, j + 1, next_sseg, Append(new_lol, sseg))

\* variant: an empty list is returned as it is
merge_ssegs_same_speaker_lenient(h, l) ==
    IF Len(l) = 0
    THEN [heap |-> h, ret |-> <<>>, sseg |-> <<>>, exc |-> ""]
    ELSE MergeLoop(h, l, 2, l[1], <<>>)

merge_ssegs_same_speaker(h, l) ==
    IF Len(l) = 0
    THEN [heap |-> h, ret |-> <<>>, sseg |-> <<>>, exc |-> "IndexError"]
    ELSE MergeLoop(h, l, 2, l[1], <<>>)

\* variant: a segment counts as a duplicate when its speaker is the same
AppendUnlessDuplicate_byspeaker(h, new_lol, sseg) ==
    IF Len(new_lol) = 0 THEN Append(new_lol, sseg)
    ELSE IF h[Last(new_lol)].spkr # h[sseg].spkr THEN Append(new_lol, sseg)
    ELSE new_lol

\* "if len(new_lol) == 0: append else: if new_lol[-1] != sseg: append"
AppendUnlessDuplicate(h, new_lol, sseg) ==
    IF Len(new_lol) = 0 THEN Append(new_lol, sseg)
    ELSE IF h[Last(new_lol)] # h[sseg] THEN Append(new_lol, sseg)
    ELSE new_lol

Half(x) == x \div 2

\* line 259: sseg[2] = sseg[2] - (overlap / 2.0)
ShrinkEnd(end, overlap) == end - Half(overlap)

\* variant: the whole overlap is given to the earlier segment
ShiftStart_whole(start, overlap) == start + overlap

\* line 262: next_sseg[1] = next_sseg[1] + (overlap / 2.0)
ShiftStart(start, overlap) == start + Half(overlap)

RECURSIVE DistributeLoop(_, _, _, _, _, _)
DistributeLoop(h, l, j, sseg, new_lol, found) ==
    IF j > Len(l)
    THEN IF Len(l) < 2
         THEN [heap |-> h, ret |-> <<>>, found |-> found, exc |-> "UnboundLocalError"]
         ELSE [heap |-> h, ret |-> Append(new_lol, Last(l)), found |-> found, exc |-> ""]
    ELSE LET next_sseg == l[j] IN
         IF is_overlapped(h[sseg].end, h[next_sseg].start)
         THEN LET overlap == h[sseg].end - h[next_sseg].start
                  h1 == [h EXCEPT ![sseg].end = ShrinkEnd(h[sseg].end, overlap)]
                  h2 == [h1 EXCEPT ![next_sseg].start = ShiftStart(h1[next_sseg].start, overlap)]
              IN DistributeLoop(h2, l, j + 1, next_sseg,
                                AppendUnlessDuplicate(h2, new_lol, sseg),
                                Append(found, <<h[sseg], h[next_sseg]>>))
         ELSE DistributeLoop(h, l, j + 1, next_sseg,
                             AppendUnlessDuplicate(h, new_lol, sseg), found)

distribute_overlap(h, l) ==
    IF Len(l) = 0
    THEN [heap |-> h, ret |-> <<>>, found |-> <<>>, exc |-> "IndexError"]
    ELSE DistributeLoop(h, l, 2, l[1], <<>>, <<>>)

\* ------------------------------------------------------- RTTM writer
\* str(round(x, 4)): a time field spells a number of ten-thousandths of a
\* second; a tick of half a second is 5000 of them, so rounding is exact
TenThousandthsPerTick == 5000

RttmNum(x) == x * TenThousandthsPerTick

\* variant: the end time is written in place of the duration
Duration_end(seg) == seg.end

\* line 305: seg[2] - seg[1]
Duration(seg) == seg.end - seg.start

\* lines 300-311: the row of one segment; " ".join(row) and the "\n" of
\* line 317 are kept as the list of the fields of one line
RttmRow(rec_id, seg) ==
    <<"SPEAKER", rec_id, "0", RttmNum(seg.start), RttmNum(Duration(seg)),
      "<NA>", "<NA>", seg.spkr, "<NA>", "<NA>">>

write_rttm(h, l) ==
    IF Len(l) = 0
    THEN [file |-> <<>>, exc |-> "IndexError"]
    ELSE LET rec_id == h[l[1]].rec IN
         [file |-> <<[j \in 1..Len(l) |-> RttmRow(rec_id, h[l[j]])]>>, exc |-> ""]

\* ------------------------------------------------------- trace back
\* Cluster ids are the strings str(0), str(1), ... of the source; the model
\* names a cluster by the number its id spells.

\* lines 176-177
InitialClusters(n) == [c \in 0..(n - 1) |-> <<c>>]

\* variant: the members of cluster b are forgotten
MergeClusters_left(ca, cb) == ca

\* line 189: clusters[a] + clusters[b]
MergeClusters(ca, cb) == ca \o cb

\* variant: the parent b is not removed
MergeStep_keep_b(cl, a, b, new_id) ==
    [c \in ((DOMAIN cl) \ {a}) \cup {new_id} |->
        IF c = new_id THEN MergeClusters(cl[a], cl[b]) ELSE cl[c]]

\* lines 186-193: add the cluster new_id, pop a and b
MergeStep(cl, a, b, new_id) ==
    [c \in ((DOMAIN cl) \ {a, b}) \cup {new_id} |->
        IF c = new_id THEN MergeClusters(cl[a], cl[b]) ELSE cl[c]]

\* line 197: oracle_num_spkrs and len(clusters) <= oracle_num_spkrs
StopReached(k, cl) == k # 0 /\ Cardinality(DOMAIN cl) <= k

\* ------------------------------------------------------------- texts
\* A Python str is the list of its characters; each character is a string
\* of length one.

\* text[:-1]
DropLast(t) == IF Len(t) = 0 THEN t ELSE SubSeq(t, 1, Len(t) - 1)

\* text.startswith(prefix)
StartsWith(t, prefix) ==
    Len(prefix) <= Len(t) /\ SubSeq(t, 1, Len(prefix)) = prefix

\* sub in text
Contains(t, sub) ==
    \E k \in 0..(Len(t) - Len(sub)) : SubSeq(t, k + 1, k + Len(sub)) = sub

\* text.rstrip(): trailing blanks and newlines are removed
RECURSIVE RStrip(_)
RStrip(t) ==
    IF Len(t) > 0 /\ Last(t) \in {" ", "\n"} THEN RStrip(DropLast(t)) ELSE t

\* text.split(sep): the fields between the occurrences of the character sep
RECURSIVE SplitFrom(_, _, _, _)
SplitFrom(t, sep, j, field) ==
    IF j > Len(t) THEN <<field>>
    ELSE IF t[j] = sep THEN <<field>> \o SplitFrom(t, sep, j + 1, <<>>)
    ELSE SplitFrom(t, sep, j + 1, Append(field, t[j]))

Split(t, sep) == SplitFrom(t, sep, 1, <<>>)

\* sep.join(fields)
RECURSIVE Join(_, _)
Join(fields, sep) ==
    IF Len(fields) = 0 THEN <<>>
    ELSE IF Len(fields) = 1 THEN fields[1]
    ELSE fields[1] \o <<sep>> \o Join(Tail(fields), sep)

\* text.rsplit(sep, 2): split at the last two occurrences of sep at most
RSplit2(t, sep) ==
    LET f == Split(t, sep) IN
    IF Len(f) <= 3 THEN f
    ELSE <<Join(SubSeq(f, 1, Len(f) - 2), sep), f[Len(f) - 1], f[Len(f)]>>

DigitChars == <<"0", "1", "2", "3", "4", "5", "6", "7", "8", "9">>

DigitVal(c) == (CHOOSE v \in 1..10 : DigitChars[v] = c) - 1

\* float(token) for a token of decimal digits
RECURSIVE ParseNum(_)
ParseNum(t) ==
    IF Len(t) = 0 THEN 0 ELSE 10 * ParseNum(DropLast(t)) + DigitVal(Last(t))

\* str(n) for 0 <= n <= 99
Str(n) == IF n < 10 THEN <<DigitChars[n + 1]>>
          ELSE <<DigitChars[(n \div 10) + 1], DigitChars[(n % 10) + 1]>>

\* the order of Python on the characters that occur in the ids
CharCode(c) == IF c = "_" THEN 95 ELSE IF c = "a" THEN 97 ELSE IF c = "b" THEN 98 ELSE 0

RECURSIVE TextLess(_, _)
TextLess(x, y) ==
    IF Len(y) = 0 THEN FALSE
    ELSE IF Len(x) = 0 THEN TRUE
    ELSE IF CharCode(x[1]) # CharCode(y[1]) THEN CharCode(x[1]) < CharCode(y[1])
    ELSE TextLess(Tail(x), Tail(y))

\* list(set(...)) followed by .sort()
RECURSIVE SortedTexts(_)
SortedTexts(S) ==
    IF S = {} THEN <<>>
    ELSE LET m == CHOOSE x \in S : \A y \in S \ {x} : TextLess(x, y)
         IN <<m>> \o SortedTexts(S \ {m})

\* ------------------------------------------------------------ inputs
Ticks == {2 * t : t \in 0..MaxTime}

SegValues == {Seg(s, e, k) : s \in Ticks, e \in Ticks, k \in Speakers}

ProperSegs == {x \in SegValues : x.end > x.start}

StartSorted(l) == \A j \in 1..(Len(l) - 1) : l[j].start <= l[j + 1].start

\* segset in any order for the short lists, in order of start for the longer
GeneralInputs ==
    UNION {IF n <= MaxUnsorted THEN [1..n -> ProperSegs]
           ELSE {l \in [1..n -> ProperSegs] : StartSorted(l)} : n \in 0..MaxLen}

\* the scenario of the specification: times (0,2),(1,3),(3,5),(4,6),(5,7)
ScenarioTimes == <<<<0, 4>>, <<2, 6>>, <<6, 10>>, <<8, 12>>, <<10, 14>>>>

ScenarioInputs ==
    {[j \in 1..5 |-> Seg(ScenarioTimes[j][1], ScenarioTimes[j][2], lab[j])] :
        lab \in [1..5 -> Speakers]}

ScenarioLabels == <<"A", "A", "B", "A", "B">>

ClusterIdle ==
    /\ tpc = "idle" /\ N = 0 /\ oracle_num_spkrs = 0 /\ clusters = <<>> /\ i = 0

BoundaryIdle ==
    /\ pc = "idle" /\ heap = <<>> /\ lol = <<>> /\ srt = <<>> /\ mrg = <<>>
    /\ acc = <<>> /\ ovl = <<>> /\ exc = "" /\ rttm = <<>>

DiarizerIdle ==
    /\ dpc = "idle" /\ full_csv = <<>> /\ ref_rttm = <<>> /\ spkr_info = <<>>
    /\ all_rec_ids = <<>> /\ rk = 0 /\ dir = <<>> /\ grouped = <<>>
    /\ used_k = <<>> /\ dexc = ""

WorkersIdle ==
    /\ wpc = <<>> /\ wheap = <<>> /\ wlol = <<>> /\ wj = <<>> /\ wsseg = <<>>
    /\ wnew = <<>> /\ wexc = <<>> /\ wfile = <<>> /\ win = <<>>

ScorerIdle ==
    /\ spc = "idle" /\ srecs = <<>> /\ sk = 0 /\ sums = <<>> /\ rates = <<>>

PitIdle ==
    /\ ppc = "idle" /\ preds = <<>> /\ ptargets = <<>> /\ pb = 0
    /\ losses = <<>> /\ perms = <<>> /\ reordered = <<>>

TruncateIdle ==
    /\ trpc = "idle" /\ predictions = <<>> /\ targets = <<>>
    /\ allowed_len_diff = 0 /\ tret = <<>>

AsrIdle ==
    /\ apc = "idle" /\ acall = "" /\ hyps = <<>> /\ ak = 0 /\ yielded = <<>>
    /\ fpred = <<>> /\ aexc = ""

LexiconIdle ==
    /\ lpc = "idle" /\ lsrc = "" /\ lexicon = <<>> /\ lfile = <<>> /\ lk = 0
    /\ lans = <<>> /\ lexit = 0

PrepareIdle ==
    /\ qpc = "off" /\ qconf = <<>> /\ qfiles = <<>> /\ qrun = 0 /\ qdone = {}

SamplerIdle ==
    /\ zpc = "off" /\ zsizes = <<>> /\ zorders = <<>> /\ zbatches = <<>>
    /\ concat_data = <<>> /\ non_cat_data = <<>>

\* the inference interface, the lexicon, the data preparation and the
\* sampler are not running
MoreIdle == AsrIdle /\ LexiconIdle /\ PrepareIdle /\ SamplerIdle

\* the workers, the scorer and the losses are not running
RestIdle == WorkersIdle /\ ScorerIdle /\ PitIdle /\ TruncateIdle /\ MoreIdle

EarlierIdle ==
    /\ BoundaryIdle /\ ClusterIdle /\ DiarizerIdle
    /\ WorkersIdle /\ ScorerIdle /\ PitIdle /\ TruncateIdle

\* do_sc, lines 337-350: one fresh object per label, in the order of segset
Init ==
    /\ pc = "sort"
    /\ heap \in GeneralInputs \cup ScenarioInputs
    /\ lol = [j \in 1..Len(heap) |-> j]
    /\ srt = <<>> /\ mrg = <<>> /\ acc = <<>> /\ ovl = <<>> /\ exc = "" /\ rttm = <<>>
    /\ ClusterIdle
    /\ DiarizerIdle
    /\ RestIdle

\* do_sc, line 353
Sort ==
    /\ pc = "sort"
    /\ lol' = SortByStart(heap, lol)
    /\ srt' = Values(heap, lol')
    /\ pc' = "merge"
    /\ UNCHANGED <<heap, mrg, acc, ovl, exc, rttm>>
    /\ UNCHANGED notB

\* do_sc, line 357
Merge ==
    /\ pc = "merge"
    /\ LET r == merge_ssegs_same_speaker(heap, lol) IN
        /\ heap' = r.heap
        /\ lol' = r.ret
        /\ mrg' = Values(r.heap, r.ret)
        /\ acc' = [j \in 1..Len(r.sseg) |-> r.heap[r.sseg[j]]]
        /\ exc' = r.exc
        /\ pc' = IF r.exc = "" THEN "distribute" ELSE "raised"
    /\ UNCHANGED <<srt, ovl, rttm>>
    /\ UNCHANGED notB

\* do_sc, line 361
Distribute ==
    /\ pc = "distribute"
    /\ LET r == distribute_overlap(heap, lol) IN
        /\ heap' = r.heap
        /\ lol' = r.ret
        /\ ovl' = r.found
        /\ exc' = r.exc
        /\ pc' = IF r.exc = "" THEN "write" ELSE "raised"
    /\ UNCHANGED <<srt, mrg, acc, rttm>>
    /\ UNCHANGED notB

\* do_sc, line 364
Write ==
    /\ pc = "write"
    /\ LET r == write_rttm(heap, lol) IN
        /\ rttm' = r.file
        /\ exc' = r.exc
        /\ pc' = IF r.exc = "" THEN "done" ELSE "raised"
    /\ UNCHANGED <<heap, lol, srt, mrg, acc, ovl>>
    /\ UNCHANGED notB

\* merge_ssegs_same_speaker applied to its own output
MergeAgain ==
    /\ pc = "distribute"
    /\ LET r == merge_ssegs_same_speaker(heap, lol) IN
        /\ heap' = r.heap
        /\ lol' = r.ret
        /\ exc' = r.exc
        /\ pc' = IF r.exc = "" THEN "merged_twice" ELSE "raised"
    /\ UNCHANGED <<srt, mrg, acc, ovl, rttm>>
    /\ UNCHANGED notB

\* trace_back_cluster_labels, lines 169-179, for a merge list of length n - 1
MaxK == MaxN + 2

InitTrace ==
    /\ tpc = "init"
    /\ N \in 1..MaxN
    /\ oracle_num_spkrs \in 0..MaxK
    /\ clusters = <<>>
    /\ i = 0
    /\ BoundaryIdle
    /\ DiarizerIdle
    /\ RestIdle

TraceInit ==
    /\ tpc = "init"
    /\ clusters' = InitialClusters(N)
    /\ i' = 0
    /\ tpc' = "loop"
    /\ UNCHANGED <<N, oracle_num_spkrs>>
    /\ UNCHANGED notC

\* one iteration of the while loop, lines 180-198; the merge record
\* cluster_map_traverse[i] names two distinct clusters that exist
TraceStep ==
    /\ tpc = "loop"
    /\ i < N - 1
    /\ \E a \in DOMAIN clusters, b \in DOMAIN clusters :
        /\ a # b
        /\ clusters' = MergeStep(clusters, a, b, N + i)
    /\ i' = i + 1
    /\ tpc' = IF StopReached(oracle_num_spkrs, clusters') THEN "done" ELSE "loop"
    /\ UNCHANGED <<N, oracle_num_spkrs>>
    /\ UNCHANGED notC

\* the loop condition fails, line 180, and the function returns, line 200
TraceExit ==
    /\ tpc = "loop"
    /\ ~(i < N - 1)
    /\ tpc' = "done"
    /\ UNCHANGED <<N, oracle_num_spkrs, clusters, i>>
    /\ UNCHANGED notC

NextTrace == TraceInit \/ TraceStep \/ TraceExit

SpecTrace == InitTrace /\ [][NextTrace]_vars

\* ---------------------------------------------------------- diarizer
MaxRecs == 2         \* most recordings of one split
MaxWin == 3          \* most sub-segments of one recording
MaxSpk == 2          \* most SPKR-INFO lines of one recording

\* recording ids: "a", "b", "ab" and "a_b"
RecUniverse == {<<"a">>, <<"b">>, <<"a", "b">>, <<"a", "_", "b">>}

HeaderRow == <<"I", "D">>

\* the aggregate file sys_output.rttm; a recording file is named by its id
AggName == <<"sys_output">>

StaleLines == <<<<"stale">>>>

\* sub-segment id: recording_id + "_" + start + "_" + end; the sub-segments
\* of a recording are windows of two seconds shifted by one second
SubSegId(rec, j) == Join(<<rec, Str(j - 1), Str(j + 1)>>, "_")

RECURSIVE CsvRows(_, _)
CsvRows(recs, n) ==
    IF Len(recs) = 0 THEN <<>>
    ELSE [j \in 1..n |-> SubSegId(recs[1], j)] \o CsvRows(Tail(recs), n)

NA == <<"<", "N", "A", ">">>
SpkrInfoWord == <<"S", "P", "K", "R", "-", "I", "N", "F", "O">>
SpeakerWord == <<"S", "P", "E", "A", "K", "E", "R">>
SpeakerLetters == <<"A", "B", "C", "D">>

\* the name of a speaker has the recording id as its prefix (line 374)
SpeakerName(rec, k) == rec \o <<".", SpeakerLetters[k]>>

SpkrInfoLine(rec, k) ==
    Join(<<SpkrInfoWord, rec, <<"0">>, NA, NA, NA, <<"u">>, SpeakerName(rec, k), NA, NA>>, " ")
        \o <<"\n">>

SpeakerLine(rec, k) ==
    Join(<<SpeakerWord, rec, <<"0">>, <<"0">>, <<"1">>, NA, NA, SpeakerName(rec, k), NA, NA>>, " ")
        \o <<"\n">>

\* the reference RTTM of a split: per recording its SPKR-INFO lines and a
\* SPEAKER line
RECURSIVE RefLines(_, _)
RefLines(recs, spk) ==
    IF Len(recs) = 0 THEN <<>>
    ELSE [k \in 1..spk[recs[1]] |-> SpkrInfoLine(recs[1], k)]
         \o <<SpeakerLine(recs[1], 1)>> \o RefLines(Tail(recs), spk)

\* lines 387-393
ReadSpkrInfo(lines) ==
    SelectSeq([j \in 1..Len(lines) |-> DropLast(lines[j])],
              LAMBDA x : StartsWith(x, SpkrInfoWord))

\* lines 397-400
AllRecIds(csv) ==
    SortedTexts({Split(RStrip(csv[j]), "_")[1] : j \in 2..Len(csv)})

\* prepare_subset_csv, lines 143-149: the rows of the csv written for rec_id,
\* without its header row
SubsetRows(csv, rec_id) == SelectSeq(csv, LAMBDA row : StartsWith(row, rec_id))

\* get_oracle_num_spkrs, lines 371-377
get_oracle_num_spkrs(rec_id, info) ==
    Cardinality({j \in 1..Len(info) : Contains(info[j], rec_id)})

\* do_sc, lines 339-350: rec_id is the argument for the first row and the
\* recording parsed from the previous row for the others
RECURSIVE BuildLol(_, _, _, _, _)
BuildLol(segset, labels, j, rec_id, h) ==
    IF j > Len(segset) THEN h
    ELSE LET splitted == RSplit2(segset[j], "_")
             a == [rec |-> splitted[1],
                   start |-> 2 * ParseNum(splitted[2]),
                   end |-> 2 * ParseNum(splitted[3]),
                   spkr |-> Join(<<rec_id, Str(labels[j])>>, "_")]
         IN BuildLol(segset, labels, j + 1, splitted[1], Append(h, a))

\* do_sc, lines 333-364, for the labels that the clustering returned
do_sc(segset, labels, rec_id) ==
    LET h0 == BuildLol(segset, labels, 1, rec_id, <<>>)
        l0 == SortByStart(h0, [j \in 1..Len(h0) |-> j])
        m == merge_ssegs_same_speaker(h0, l0)
        d == distribute_overlap(m.heap, m.ret)
    IN IF m.exc # "" THEN [file |-> <<>>, exc |-> m.exc]
       ELSE IF d.exc # "" THEN [file |-> <<>>, exc |-> d.exc]
       ELSE write_rttm(d.heap, d.ret)

\* the labels of the clustering for n embeddings and k clusters: the
\* embeddings fall into the clusters in turn, from any first cluster
ClusterLabelings(n, k) == {[j \in 1..n |-> (j - 1 + off) % k] : off \in 0..(k - 1)}

\* line 476: f == concate_rttm_file
IsAggregate(f) == f = AggName

\* lines 474-479: the files of the directory, in the order of glob, are
\* copied to the aggregate, which is open for writing and starts empty
RECURSIVE ConcatFiles(_, _, _, _)
ConcatFiles(d, order, j, cat) ==
    IF j > Len(order) THEN cat
    ELSE IF IsAggregate(order[j]) THEN ConcatFiles(d, order, j + 1, cat)
    ELSE ConcatFiles(d, order, j + 1, cat \o d[order[j]])

Orders(S) == {p \in [1..Cardinality(S) -> S] : \A x \in S : \E j \in DOMAIN p : p[j] = x}

PutFile(d, name, lines) ==
    [f \in (DOMAIN d) \cup {name} |-> IF f = name THEN lines ELSE d[f]]

\* a recording of an earlier run that is not in the csv of this run
OtherRec == <<"x">>

\* what earlier runs of diarizer left in out_rttm_dir, which the code
\* creates when missing and never empties (lines 460-463): nothing, the
\* files of a run over the same csv, or those and the file of a recording
\* that the csv no longer lists
Leftovers(recs) ==
    LET same == [f \in recs \cup {AggName} |-> StaleLines]
    IN {<<>>, same, [f \in recs \cup {AggName, OtherRec} |-> StaleLines]}

InitDiarizer ==
    /\ dpc = "start"
    /\ \E recs \in SUBSET RecUniverse, n \in 1..MaxWin :
        /\ Cardinality(recs) <= MaxRecs
        /\ \E spk \in [recs -> 1..MaxSpk] :
            /\ full_csv = <<HeaderRow>> \o CsvRows(SortedTexts(recs), n)
            /\ ref_rttm = RefLines(SortedTexts(recs), spk)
        /\ dir \in Leftovers({AllRecIds(full_csv)[j] : j \in 1..Len(AllRecIds(full_csv))})
    /\ spkr_info = <<>> /\ all_rec_ids = <<>> /\ rk = 0
    /\ grouped = <<>> /\ used_k = <<>> /\ dexc = ""
    /\ BoundaryIdle
    /\ ClusterIdle
    /\ RestIdle

\* diarizer, lines 384-404
DiarizerStart ==
    /\ dpc = "start"
    /\ spkr_info' = ReadSpkrInfo(ref_rttm)
    /\ all_rec_ids' = AllRecIds(full_csv)
    /\ rk' = 1
    /\ dpc' = "loop"
    /\ UNCHANGED <<full_csv, ref_rttm, dir, grouped, used_k, dexc>>
    /\ UNCHANGED notD

\* one iteration of the loop over the recordings, lines 406-467
DiarizeRec ==
    /\ dpc = "loop"
    /\ rk <= Len(all_rec_ids)
    /\ LET rec_id == all_rec_ids[rk]
           segset == SubsetRows(full_csv, rec_id)
           num_spkrs == get_oracle_num_spkrs(rec_id, spkr_info)
       IN /\ grouped' = Append(grouped, segset)
          /\ used_k' = Append(used_k, num_spkrs)
          /\ \E labels \in ClusterLabelings(Len(segset), num_spkrs) :
              LET r == do_sc(segset, labels, rec_id) IN
              /\ dexc' = r.exc
              /\ dir' = IF r.exc = "" THEN PutFile(dir, rec_id, r.file[1]) ELSE dir
              /\ dpc' = IF r.exc = "" THEN "loop" ELSE "raised"
    /\ rk' = rk + 1
    /\ UNCHANGED <<full_csv, ref_rttm, spkr_info, all_rec_ids>>
    /\ UNCHANGED notD

\* lines 469-487; out_rttm_dir is bound by the loop body only
Concatenate ==
    /\ dpc = "loop"
    /\ rk > Len(all_rec_ids)
    /\ IF Len(all_rec_ids) = 0
       THEN /\ dexc' = "UnboundLocalError"
            /\ dpc' = "raised"
            /\ dir' = dir
       ELSE /\ dexc' = ""
            /\ dpc' = "done"
            /\ LET opened == PutFile(dir, AggName, <<>>) IN
               \E order \in Orders(DOMAIN opened) :
                   dir' = PutFile(opened, AggName, ConcatFiles(opened, order, 1, <<>>))
    /\ UNCHANGED <<full_csv, ref_rttm, spkr_info, all_rec_ids, rk, grouped, used_k>>
    /\ UNCHANGED notD

NextDiarizer == DiarizerStart \/ DiarizeRec \/ Concatenate

SpecDiarizer == InitDiarizer /\ [][NextDiarizer]_vars

\* ----------------------------------------------------------- workers
\* One worker per recording runs the body of do_sc (lines 337-364) on the
\* labels of its recording; the workers are threads of one process, so the
\* objects of all of them live in one heap, and they take their steps in any
\* order.
Workers == {1, 2}

WorkerRecs == <<"R1", "R2">>

\* the inputs of a worker: its windows of two seconds shifted by one second,
\* each with the label of its cluster
WorkerInputs(w) ==
    UNION {{[j \in 1..n |-> [rec |-> WorkerRecs[w], start |-> 2 * (j - 1),
                             end |-> 2 * (j + 1), spkr |-> lab[j]]] :
               lab \in [1..n -> Speakers]} : n \in 0..MaxLen}

\* variant: the workers fill one list of objects that they share
Alloc_shared(w, j) == j

\* line 349: a = [rec_id, sseg_start, sseg_end, spkr_id] is a new object
\* for every sub-segment of every worker
Alloc(w, j) == (w - 1) * MaxLen + j

Put(f, w, v) == [f EXCEPT ![w] = v]

InitWorkers ==
    /\ win \in [Workers -> UNION {WorkerInputs(w) : w \in Workers}]
    /\ \A w \in Workers : win[w] \in WorkerInputs(w)
    /\ wpc = [w \in Workers |-> "build"]
    /\ wheap = <<>>
    /\ wlol = [w \in Workers |-> <<>>]
    /\ wj = [w \in Workers |-> 0]
    /\ wsseg = [w \in Workers |-> 0]
    /\ wnew = [w \in Workers |-> <<>>]
    /\ wexc = [w \in Workers |-> ""]
    /\ wfile = [w \in Workers |-> <<>>]
    /\ BoundaryIdle /\ ClusterIdle /\ DiarizerIdle
    /\ ScorerIdle /\ PitIdle /\ TruncateIdle
    /\ MoreIdle

\* do_sc, lines 337-350
WBuild(w) ==
    /\ wpc[w] = "build"
    /\ LET n == Len(win[w])
           new == {Alloc(w, j) : j \in 1..n}
       IN /\ wheap' = [a \in (DOMAIN wheap) \cup new |->
                          IF a \in new
                          THEN win[w][CHOOSE j \in 1..n : Alloc(w, j) = a]
                          ELSE wheap[a]]
          /\ wlol' = Put(wlol, w, [j \in 1..n |-> Alloc(w, j)])
    /\ wpc' = Put(wpc, w, "sort")
    /\ UNCHANGED <<wj, wsseg, wnew, wexc, wfile, win>>
    /\ UNCHANGED notW

\* do_sc, line 353
WSort(w) ==
    /\ wpc[w] = "sort"
    /\ wlol' = Put(wlol, w, SortByStart(wheap, wlol[w]))
    /\ wpc' = Put(wpc, w, "merge")
    /\ UNCHANGED <<wheap, wj, wsseg, wnew, wexc, wfile, win>>
    /\ UNCHANGED notW

\* merge_ssegs_same_speaker, lines 218-219
WMergeStart(w) ==
    /\ wpc[w] = "merge"
    /\ IF Len(wlol[w]) = 0
       THEN /\ wexc' = Put(wexc, w, "IndexError")
            /\ wpc' = Put(wpc, w, "raised")
            /\ UNCHANGED <<wj, wsseg, wnew>>
       ELSE /\ wnew' = Put(wnew, w, <<>>)
            /\ wsseg' = Put(wsseg, w, wlol[w][1])
            /\ wj' = Put(wj, w, 2)
            /\ wpc' = Put(wpc, w, "mergeloop")
            /\ wexc' = wexc
    /\ UNCHANGED <<wheap, wlol, wfile, win>>
    /\ UNCHANGED notW

\* merge_ssegs_same_speaker, lines 221-233: one iteration, or the return
WMergeIter(w) ==
    /\ wpc[w] = "mergeloop"
    /\ IF wj[w] > Len(wlol[w])
       THEN /\ wlol' = Put(wlol, w, wnew[w])
            /\ wpc' = Put(wpc, w, "distribute")
            /\ UNCHANGED <<wheap, wj, wsseg, wnew>>
       ELSE LET sseg == wsseg[w]
                next_sseg == wlol[w][wj[w]]
            IN /\ IF MergeCond(wheap, sseg, next_sseg)
                  THEN /\ wheap' = [wheap EXCEPT ![sseg].end = wheap[next_sseg].end]
                       /\ UNCHANGED <<wsseg, wnew>>
                  ELSE /\ wnew' = Put(wnew, w, Append(wnew[w], sseg))
                       /\ wsseg' = Put(wsseg, w, next_sseg)
                       /\ wheap' = wheap
               /\ wj' = Put(wj, w, wj[w] + 1)
               /\ UNCHANGED <<wlol, wpc>>
    /\ UNCHANGED <<wexc, wfile, win>>
    /\ UNCHANGED notW

\* distribute_overlap, lines 242-243
WDistStart(w) ==
    /\ wpc[w] = "distribute"
    /\ IF Len(wlol[w]) = 0
       THEN /\ wexc' = Put(wexc, w, "IndexError")
            /\ wpc' = Put(wpc, w, "raised")
            /\ UNCHANGED <<wj, wsseg, wnew>>
       ELSE /\ wnew' = Put(wnew, w, <<>>)
            /\ wsseg' = Put(wsseg, w, wlol[w][1])
            /\ wj' = Put(wj, w, 2)
            /\ wpc' = Put(wpc, w, "distloop")
            /\ wexc' = wexc
    /\ UNCHANGED <<wheap, wlol, wfile, win>>
    /\ UNCHANGED notW

\* distribute_overlap, lines 246-290: one iteration, or the last append and
\* the return; next_sseg is unbound when the loop had no iteration
WDistIter(w) ==
    /\ wpc[w] = "distloop"
    /\ IF wj[w] > Len(wlol[w])
       THEN /\ IF Len(wlol[w]) < 2
               THEN /\ wexc' = Put(wexc, w, "UnboundLocalError")
                    /\ wpc' = Put(wpc, w, "raised")
                    /\ wlol' = wlol
               ELSE /\ wlol' = Put(wlol, w, Append(wnew[w], Last(wlol[w])))
                    /\ wpc' = Put(wpc, w, "write")
                    /\ wexc' = wexc
            /\ UNCHANGED <<wheap, wj, wsseg, wnew>>
       ELSE LET sseg == wsseg[w]
                next_sseg == wlol[w][wj[w]]
                overlap == wheap[sseg].end - wheap[next_sseg].start
                h1 == [wheap EXCEPT ![sseg].end = ShrinkEnd(wheap[sseg].end, overlap)]
                h2 == [h1 EXCEPT ![next_sseg].start = ShiftStart(h1[next_sseg].start, overlap)]
                h == IF is_overlapped(wheap[sseg].end, wheap[next_sseg].start)
                     THEN h2 ELSE wheap
            IN /\ wheap' = h
               /\ wnew' = Put(wnew, w, AppendUnlessDuplicate(h, wnew[w], sseg))
               /\ wsseg' = Put(wsseg, w, next_sseg)
               /\ wj' = Put(wj, w, wj[w] + 1)
               /\ UNCHANGED <<wlol, wpc, wexc>>
    /\ UNCHANGED <<wfile, win>>
    /\ UNCHANGED notW

\* do_sc, line 364
WWrite(w) ==
    /\ wpc[w] = "write"
    /\ LET r == write_rttm(wheap, wlol[w]) IN
        /\ wfile' = Put(wfile, w, r.file)
        /\ wexc' = Put(wexc, w, r.exc)
        /\ wpc' = Put(wpc, w, IF r.exc = "" THEN "done" ELSE "raised")
    /\ UNCHANGED <<wheap, wlol, wj, wsseg, wnew, win>>
    /\ UNCHANGED notW

NextWorkers ==
    \E w \in Workers :
        \/ WBuild(w) \/ WSort(w) \/ WMergeStart(w) \/ WMergeIter(w)
        \/ WDistStart(w) \/ WDistIter(w) \/ WWrite(w)

SpecWorkers == InitWorkers /\ [][NextWorkers]_vars

\* ------------------------------------------------------------ scorer
\* speechbrain.utils.DER, called at lines 560 and 579; its code is not among
\* the sources, so it is modelled as the specification describes it: the
\* error durations and the scored durations are summed over the recordings
\* before the division. A rate is a percentage kept as the fraction num / den.
MaxErr == 3          \* longest error duration of one kind in one recording

\* the scored (reference) durations of a recording
ScoredDurations == {10, 20}

\* the numbers of recordings of a split
RecordingCounts == {1, 2}

RecordingScores ==
    [ms : 0..MaxErr, fa : 0..MaxErr, ser : 0..MaxErr, total : ScoredDurations]

ZeroSums == [ms |-> 0, fa |-> 0, ser |-> 0, total |-> 0]

AddScores(s, r) ==
    [ms |-> s.ms + r.ms, fa |-> s.fa + r.fa, ser |-> s.ser + r.ser,
     total |-> s.total + r.total]

Percent(duration, total) == [num |-> 100 * duration, den |-> total]

RECURSIVE SumOfRates(_, _)
SumOfRates(recs, j) ==
    IF j > Len(recs) THEN [num |-> 0, den |-> 1]
    ELSE LET r == Percent(recs[j].ms + recs[j].fa + recs[j].ser, recs[j].total)
             t == SumOfRates(recs, j + 1)
         IN [num |-> r.num * t.den + t.num * r.den, den |-> r.den * t.den]

\* variant: the mean of the rates of the recordings
OverallDER_mean(recs, s) ==
    [num |-> SumOfRates(recs, 1).num, den |-> Len(recs) * SumOfRates(recs, 1).den]

\* the summed error durations over the summed scored durations
OverallDER(recs, s) == Percent(s.ms + s.fa + s.ser, s.total)

InitScorer ==
    /\ spc = "score"
    /\ \E n \in RecordingCounts : srecs \in [1..n -> RecordingScores]
    /\ sk = 1
    /\ sums = ZeroSums
    /\ rates = <<>>
    /\ BoundaryIdle /\ ClusterIdle /\ DiarizerIdle
    /\ WorkersIdle /\ PitIdle /\ TruncateIdle
    /\ MoreIdle

\* the durations of one recording are added to the sums
ScoreRecording ==
    /\ spc = "score"
    /\ sk <= Len(srecs)
    /\ sums' = AddScores(sums, srecs[sk])
    /\ sk' = sk + 1
    /\ UNCHANGED <<spc, srecs, rates>>
    /\ UNCHANGED notS

\* the four numbers [MS, FA, SER, DER] are returned
Report ==
    /\ spc = "score"
    /\ sk > Len(srecs)
    /\ rates' = [MS |-> Percent(sums.ms, sums.total),
                 FA |-> Percent(sums.fa, sums.total),
                 SER |-> Percent(sums.ser, sums.total),
                 DER |-> OverallDER(srecs, sums)]
    /\ spc' = "done"
    /\ UNCHANGED <<srecs, sk, sums>>
    /\ UNCHANGED notS

NextScorer == ScoreRecording \/ Report

SpecScorer == InitScorer /\ [][NextScorer]_vars

\* --------------------------------------------------------------- PIT
\* PitWrapper of speechbrain/nnet/losses.py with the base loss of its
\* example, the squared error without reduction. A tensor has the shape
\* [batch, 1, sources]: an example is the list of the values of its sources.
\* Python counts the sources from 0, so the source p[i] of Python is the
\* element p[i + 1] + 1 here. A loss is kept as the sum over the sources,
\* that is, the mean of the source times the number of sources.
MaxVal == 2          \* largest value of an element of a tensor

\* the numbers of sources
SourceCounts == {1, 2, 3}

\* the numbers of examples of a batch
BatchSizes == {1, 2}

\* nn.MSELoss(reduction="none")
base_loss(x, y) == (x - y) * (x - y)

\* itertools.permutations(elems): the permutations of a sorted list, in
\* lexicographic order
RECURSIVE PermsOf(_)
RECURSIVE PermsFrom(_, _)
PermsFrom(elems, k) ==
    IF k > Len(elems) THEN <<>>
    ELSE LET rest == SubSeq(elems, 1, k - 1) \o SubSeq(elems, k + 1, Len(elems))
             sub == PermsOf(rest)
         IN [m \in 1..Len(sub) |-> <<elems[k]>> \o sub[m]] \o PermsFrom(elems, k + 1)

PermsOf(elems) == IF Len(elems) = 0 THEN <<<<>>>> ELSE PermsFrom(elems, 1)

\* lines 136-149: loss_mat[i, j] = base_loss(pred[..., j], target[..., i]),
\* averaged over the leading axes
loss_mat_of(pred, target) ==
    [u \in 1..Len(pred) |-> [j \in 1..Len(pred) |-> base_loss(pred[j], target[u])]]

\* line 108: loss_mat[range(S), p], summed
RECURSIVE PermLossFrom(_, _, _)
PermLossFrom(loss_mat, p, u) ==
    IF u > Len(p) THEN 0
    ELSE loss_mat[u][p[u] + 1] + PermLossFrom(loss_mat, p, u + 1)

PermLoss(loss_mat, p) == PermLossFrom(loss_mat, p, 1)

\* variant: the comparison is the other way round
Better_less(loss, c_loss) == loss < c_loss

\* line 109: loss > c_loss
Better(loss, c_loss) == loss > c_loss

\* lines 105-112; best is <<>> while loss is None
RECURSIVE FastPitFrom(_, _, _, _)
FastPitFrom(loss_mat, ps, k, best) ==
    IF k > Len(ps) THEN best
    ELSE LET c_loss == PermLoss(loss_mat, ps[k]) IN
         IF best = <<>> \/ Better(best[1].loss, c_loss)
         THEN FastPitFrom(loss_mat, ps, k + 1, <<[loss |-> c_loss, perm |-> ps[k]]>>)
         ELSE FastPitFrom(loss_mat, ps, k + 1, best)

fast_pit(loss_mat) ==
    FastPitFrom(loss_mat, PermsOf([u \in 1..Len(loss_mat) |-> u - 1]), 1, <<>>)[1]

opt_perm_loss(pred, target) == fast_pit(loss_mat_of(pred, target))

\* variant: source i of the tensor is moved to place p[i]
ReorderExample_inverse(t, p) == [u \in 1..Len(t) |-> t[CHOOSE j \in 1..Len(t) : p[j] + 1 = u]]

\* line 172: tensor[b][..., p[b]]
ReorderExample(t, p) == [u \in 1..Len(t) |-> t[p[u] + 1]]

reorder_tensor(tensor, p) == [b \in 1..Len(tensor) |-> ReorderExample(tensor[b], p[b])]

\* the orders of S sources
SourceOrders(S) ==
    LET ps == PermsOf([u \in 1..S |-> u - 1]) IN {ps[m] : m \in 1..Len(ps)}

\* a batch is one example, or an example and the same example with the
\* sources of its prediction in another order
InitPit ==
    /\ ppc = "loop"
    /\ \E S \in SourceCounts, n \in BatchSizes :
        \E pred \in [1..S -> 0..MaxVal], target \in [1..S -> 0..MaxVal], q \in SourceOrders(S) :
            /\ preds = IF n = 1 THEN <<pred>> ELSE <<pred, ReorderExample(pred, q)>>
            /\ ptargets = [b \in 1..n |-> target]
    /\ pb = 1
    /\ losses = <<>> /\ perms = <<>> /\ reordered = <<>>
    /\ BoundaryIdle /\ ClusterIdle /\ DiarizerIdle
    /\ WorkersIdle /\ ScorerIdle /\ TruncateIdle
    /\ MoreIdle

\* forward, lines 199-202: one iteration of the loop over the batch
PitExample ==
    /\ ppc = "loop"
    /\ pb <= Len(preds)
    /\ LET r == opt_perm_loss(preds[pb], ptargets[pb]) IN
        /\ perms' = Append(perms, r.perm)
        /\ losses' = Append(losses, r.loss)
    /\ pb' = pb + 1
    /\ UNCHANGED <<ppc, preds, ptargets, reordered>>
    /\ UNCHANGED notP

\* forward, lines 203-204
PitReturn ==
    /\ ppc = "loop"
    /\ pb > Len(preds)
    /\ ppc' = "returned"
    /\ UNCHANGED <<preds, ptargets, pb, losses, perms, reordered>>
    /\ UNCHANGED notP

\* reorder_tensor(preds, perms), lines 170-173
Reorder ==
    /\ ppc = "returned"
    /\ reordered' = reorder_tensor(preds, perms)
    /\ ppc' = "reordered"
    /\ UNCHANGED <<preds, ptargets, pb, losses, perms>>
    /\ UNCHANGED notP

NextPit == PitExample \/ PitReturn \/ Reorder

SpecPit == InitPit /\ [][NextPit]_vars

\* ---------------------------------------------------------- truncate
MaxFrames == 4       \* longest time axis of a tensor
MaxAllowed == 3      \* largest allowed_len_diff

FrameValues == {0, 1}

\* a tensor [1, time], along its time axis
Tensors == UNION {[1..n -> FrameValues] : n \in 0..MaxFrames}

Abs(x) == IF x < 0 THEN -x ELSE x

\* variant: a difference equal to allowed_len_diff is refused too
ExceedsAllowed_atleast(len_diff, allowed) == Abs(len_diff) >= allowed

\* line 444: abs(len_diff) > allowed_len_diff
ExceedsAllowed(len_diff, allowed) == Abs(len_diff) > allowed

\* lines 441-452
truncate(p, t, allowed) ==
    LET len_diff == Len(p) - Len(t) IN
    IF len_diff = 0 THEN [ret |-> <<p, t>>, exc |-> ""]
    ELSE IF ExceedsAllowed(len_diff, allowed) THEN [ret |-> <<>>, exc |-> "ValueError"]
    ELSE IF len_diff < 0 THEN [ret |-> <<p, SubSeq(t, 1, Len(p))>>, exc |-> ""]
    ELSE [ret |-> <<SubSeq(p, 1, Len(t)), t>>, exc |-> ""]

InitTruncate ==
    /\ trpc = "call"
    /\ predictions \in Tensors
    /\ targets \in Tensors
    /\ allowed_len_diff \in 0..MaxAllowed
    /\ tret = <<>>
    /\ BoundaryIdle /\ ClusterIdle /\ DiarizerIdle
    /\ WorkersIdle /\ ScorerIdle /\ PitIdle
    /\ MoreIdle

Truncate ==
    /\ trpc = "call"
    /\ LET r == truncate(predictions, targets, allowed_len_diff) IN
        /\ tret' = r.ret
        /\ trpc' = IF r.exc = "" THEN "returned" ELSE "raised"
    /\ UNCHANGED <<predictions, targets, allowed_len_diff>>
    /\ UNCHANGED notT

NextTruncate == Truncate

SpecTruncate == InitTruncate /\ [][NextTruncate]_vars

\* ------------------------------------------- streaming transducer ASR
\* Texts are sequences of one-character strings; "_" stands for U+2581,
\* the mark that sentencepiece puts where a word starts.
MaxChunks == 2
MaxPieces == 2

StreamingCall == "transcribe_file_streaming"
FileCallName == "transcribe_file"

\* the pieces of the vocabulary: a piece that starts a word, one that
\* continues a word
Pieces == {<<"_", "a">>, <<"b">>}

PieceLists == UNION {[1..n -> Pieces] : n \in 0..MaxPieces}

ChunkHyps == UNION {[1..n -> PieceLists] : n \in 1..MaxChunks}

\* the methods that StreamingTransducerASR defines
ClassMethods ==
    {"__init__", "transcribe_file_streaming", "transcribe_file",
     "encode_chunk", "transcribe_chunk", "make_streaming_context"}

\* the name that transcribe_file looks up on self
StreamLookup == "transcribe_file_stream"

RECURSIVE Flatten(_)
Flatten(ss) == IF ss = <<>> THEN <<>> ELSE Head(ss) \o Flatten(Tail(ss))

PieceText(piece) ==
    [j \in 1..Len(piece) |-> IF piece[j] = "_" THEN " " ELSE piece[j]]

\* proto.text of sentencepiece: the pieces joined, the mark turned into
\* a space, and the space before the first word removed
ProtoText(pieces) ==
    LET raw == Flatten([j \in 1..Len(pieces) |-> PieceText(pieces[j])])
    IN  IF raw # <<>> /\ raw[1] = " " THEN Tail(raw) ELSE raw

decode_preserve_leading_space(pieces) ==
    IF Len(pieces) >= 1 /\ pieces[1][1] = "_"
    THEN <<" ">> \o ProtoText(pieces)
    ELSE ProtoText(pieces)

\* pred[1:]
DropFirstChar(t) == IF t = <<>> THEN <<>> ELSE Tail(t)

\* what the loop of transcribe_file_streaming yields for chunk k (from 1)
StreamYield(h, k) ==
    LET pred == decode_preserve_leading_space(h[k])
    IN  IF k = 1 THEN DropFirstChar(pred) ELSE pred

InitAsr ==
    /\ apc = "start"
    /\ acall \in {StreamingCall, FileCallName}
    /\ hyps \in ChunkHyps
    /\ ak = 0
    /\ yielded = <<>>
    /\ fpred = <<>>
    /\ aexc = ""
    /\ EarlierIdle
    /\ LexiconIdle
    /\ PrepareIdle
    /\ SamplerIdle

\* transcribe_file: pred = "", then the loop over the generator that the
\* lookup of transcribe_file_stream gives
FileCall ==
    /\ apc = "start"
    /\ acall = FileCallName
    /\ IF StreamLookup \in ClassMethods
       THEN apc' = "chunks" /\ aexc' = aexc
       ELSE apc' = "raised" /\ aexc' = "AttributeError"
    /\ fpred' = <<>>
    /\ UNCHANGED <<acall, hyps, ak, yielded>>
    /\ UNCHANGED notA

StreamStart ==
    /\ apc = "start"
    /\ acall = StreamingCall
    /\ apc' = "chunks"
    /\ UNCHANGED <<acall, hyps, ak, yielded, fpred, aexc>>
    /\ UNCHANGED notA

\* one turn of the loop over the chunks, and of the loop of the caller
StreamChunk ==
    /\ apc = "chunks"
    /\ ak < Len(hyps)
    /\ ak' = ak + 1
    /\ yielded' = Append(yielded, StreamYield(hyps, ak + 1))
    /\ fpred' = IF acall = FileCallName
                THEN fpred \o StreamYield(hyps, ak + 1)
                ELSE fpred
    /\ UNCHANGED <<apc, acall, hyps, aexc>>
    /\ UNCHANGED notA

StreamEnd ==
    /\ apc = "chunks"
    /\ ak = Len(hyps)
    /\ apc' = "done"
    /\ UNCHANGED <<acall, hyps, ak, yielded, fpred, aexc>>
    /\ UNCHANGED notA

NextAsr == FileCall \/ StreamStart \/ StreamChunk \/ StreamEnd

SpecAsr == InitAsr /\ [][NextAsr]_vars

\* ------------------------------------------------------------ lexicon
MaxEntries == 2
MaxLines == 2

Eps == <<"<", "e", "p", "s", ">">>

Blanks == {" ", "\t"}

\* characters that str.isspace() holds for, among those of the model
WhitespaceChars == {" ", "\t", "\r", "\n"}

\* the words and the token lists that the lexicons are made of
LexWords == {<<"w">>, <<"v">>, <<>>, Eps, <<"w", " ", "v">>}

LexTokenLists ==
    {<<>>, <<<<"p">>>>, <<<<"p">>, <<"q">>>>, <<<<>>>>, <<<<"p">>, <<>>>>,
     <<<<"p", "\t", "q">>>>}

LexEntries == LexWords \X LexTokenLists

Lexicons == UNION {[1..n -> LexEntries] : n \in 0..MaxEntries}

\* lines of a lexicon file that was not written by write_lexicon
GivenLines ==
    {<<"w", " ", "p", "\n">>, <<"v", " ", " ", "p", "\t", "q", "\n">>,
     <<"\n">>, <<" ", "\t", "\n">>, <<"w", "\n">>,
     <<"<", "e", "p", "s", ">", " ", "p", "\n">>, <<"v", " ", "q">>}

GivenFiles ==
    {Flatten(ls) : ls \in UNION {[1..n -> GivenLines] : n \in 0..MaxLines}}

\* f.write(f"{word} {' '.join(tokens)}\n") without its newline
WriteEntry_nonewline(word, tokens) == word \o <<" ">> \o Flatten(
    [j \in 1..Len(tokens) |->
        IF j = 1 THEN tokens[j] ELSE <<" ">> \o tokens[j]])

\* f.write(f"{word} {' '.join(tokens)}\n")
WriteEntry(word, tokens) == word \o <<" ">> \o Flatten(
    [j \in 1..Len(tokens) |->
        IF j = 1 THEN tokens[j] ELSE <<" ">> \o tokens[j]]) \o <<"\n">>

write_lexicon(lex) ==
    Flatten([j \in 1..Len(lex) |-> WriteEntry(lex[j][1], lex[j][2])])

\* for line in f: the lines of the text, each with its newline
RECURSIVE FileLinesFrom(_, _, _)
FileLinesFrom(t, j, line) ==
    IF j > Len(t) THEN (IF line = <<>> THEN <<>> ELSE <<line>>)
    ELSE IF t[j] = "\n"
         THEN <<Append(line, t[j])>> \o FileLinesFrom(t, j + 1, <<>>)
         ELSE FileLinesFrom(t, j + 1, Append(line, t[j]))

FileLines(t) == FileLinesFrom(t, 1, <<>>)

\* line.strip(" \t\r\n")
RECURSIVE LStripChars(_, _)
LStripChars(t, chars) ==
    IF Len(t) > 0 /\ t[1] \in chars THEN LStripChars(Tail(t), chars) ELSE t

RECURSIVE RStripChars(_, _)
RStripChars(t, chars) ==
    IF Len(t) > 0 /\ Last(t) \in chars
    THEN RStripChars(DropLast(t), chars)
    ELSE t

StripChars(t, chars) == RStripChars(LStripChars(t, chars), chars)

\* re.compile("[ \t]+").split(t): the fields between the runs of blanks;
\* the text without any blank, the empty text too, is one field
RECURSIVE ReSplitFrom(_, _, _)
ReSplitFrom(t, j, field) ==
    IF j > Len(t) THEN <<field>>
    ELSE IF t[j] \in Blanks
         THEN IF j > 1 /\ t[j - 1] \in Blanks
              THEN ReSplitFrom(t, j + 1, field)
              ELSE <<field>> \o ReSplitFrom(t, j + 1, <<>>)
         ELSE ReSplitFrom(t, j + 1, Append(field, t[j]))

WhitespaceSplit(t) == ReSplitFrom(t, 1, <<>>)

LineFields(line) == WhitespaceSplit(StripChars(line, WhitespaceChars))

InitLexicon ==
    /\ \/ /\ lsrc = "written"
          /\ lpc = "start"
          /\ lexicon \in Lexicons
          /\ lfile = <<>>
       \/ /\ lsrc = "given"
          /\ lpc = "written"
          /\ lexicon = <<>>
          /\ lfile \in GivenFiles
    /\ lk = 0
    /\ lans = <<>>
    /\ lexit = 0
    /\ EarlierIdle
    /\ AsrIdle
    /\ PrepareIdle
    /\ SamplerIdle

WriteLexicon ==
    /\ lpc = "start"
    /\ lfile' = write_lexicon(lexicon)
    /\ lpc' = "written"
    /\ UNCHANGED <<lsrc, lexicon, lk, lans, lexit>>
    /\ UNCHANGED notL

\* read_lexicon up to the loop: ans = [] and the file is opened
ReadOpen ==
    /\ lpc = "written"
    /\ lpc' = "reading"
    /\ lk' = 0
    /\ lans' = <<>>
    /\ UNCHANGED <<lsrc, lexicon, lfile, lexit>>
    /\ UNCHANGED notL

\* one turn of the loop over the lines
ReadLine ==
    /\ lpc = "reading"
    /\ lk < Len(FileLines(lfile))
    /\ LET a == LineFields(FileLines(lfile)[lk + 1]) IN
       IF Len(a) = 0
       THEN lpc' = lpc /\ lans' = lans /\ lexit' = lexit
       ELSE IF Len(a) < 2
       THEN lpc' = "exited" /\ lans' = lans /\ lexit' = 1
       ELSE IF a[1] = Eps
       THEN lpc' = "exited" /\ lans' = lans /\ lexit' = 1
       ELSE lpc' = lpc /\ lans' = Append(lans, <<a[1], Tail(a)>>)
            /\ lexit' = lexit
    /\ lk' = lk + 1
    /\ UNCHANGED <<lsrc, lexicon, lfile>>
    /\ UNCHANGED notL

ReadReturn ==
    /\ lpc = "reading"
    /\ lk = Len(FileLines(lfile))
    /\ lpc' = "returned"
    /\ UNCHANGED <<lsrc, lexicon, lfile, lk, lans, lexit>>
    /\ UNCHANGED notL

NextLexicon == WriteLexicon \/ ReadOpen \/ ReadLine \/ ReadReturn

SpecLexicon == InitLexicon /\ [][NextLexicon]_vars

\* -------------------------------------------------- AMI data preparation
MaxCalls == 3

OPT_FILE == "opt_ami_prepare.pkl"
TRAIN_CSV == "train.csv"
DEV_CSV == "dev.csv"
TEST_CSV == "test.csv"

\* no configuration: before the first call, and in a file that does not
\* exist
NoConf == [splits |-> <<>>, seg_dur |-> 0]

\* a file holds the configuration it was made from and the number of the
\* call that wrote it
FileOf(conf, run) == [conf |-> conf, run |-> run]

NoFile == FileOf(NoConf, 0)

SaveFolderFiles == {OPT_FILE, TRAIN_CSV, DEV_CSV, TEST_CSV}

\* the arguments that differ between the calls: splits and seg_dur; the
\* other entries of conf are the same in every call
SplitLists == {<<"train", "dev", "test">>, <<"train", "dev">>, <<"test">>}

SegDurs == {300, 600}

Confs == [splits : SplitLists, seg_dur : SegDurs]

split_files(split) ==
    IF split = "train" THEN TRAIN_CSV
    ELSE IF split = "dev" THEN DEV_CSV
    ELSE TEST_CSV

InSplits(split, splits) == \E j \in 1..Len(splits) : splits[j] = split

skip(splits, files, conf) ==
    /\ \A j \in 1..Len(splits) : files[split_files(splits[j])] # NoFile
    /\ files[OPT_FILE] # NoFile
    /\ files[OPT_FILE].conf = conf

InitPrepare ==
    /\ qpc = "idle"
    /\ qconf = NoConf
    /\ qfiles = [f \in SaveFolderFiles |-> NoFile]
    /\ qrun = 0
    /\ qdone = {}
    /\ EarlierIdle
    /\ AsrIdle
    /\ LexiconIdle
    /\ SamplerIdle

\* prepare_ami up to the return of the skipped call
PrepareCall ==
    /\ qpc \in {"idle", "returned", "skipped", "interrupted"}
    /\ qrun < MaxCalls
    /\ \E conf \in Confs :
        /\ qconf' = conf
        /\ qpc' = IF skip(conf.splits, qfiles, conf) THEN "skipped" ELSE "train"
    /\ qrun' = qrun + 1
    /\ UNCHANGED <<qfiles, qdone>>
    /\ UNCHANGED notQ

WriteTrain ==
    /\ qpc = "train"
    /\ qfiles' = IF InSplits("train", qconf.splits)
                 THEN [qfiles EXCEPT ![TRAIN_CSV] = FileOf(qconf, qrun)]
                 ELSE qfiles
    /\ qpc' = "dev"
    /\ UNCHANGED <<qconf, qrun, qdone>>
    /\ UNCHANGED notQ

WriteDev ==
    /\ qpc = "dev"
    /\ qfiles' = IF InSplits("dev", qconf.splits)
                 THEN [qfiles EXCEPT ![DEV_CSV] = FileOf(qconf, qrun)]
                 ELSE qfiles
    /\ qpc' = "test"
    /\ UNCHANGED <<qconf, qrun, qdone>>
    /\ UNCHANGED notQ

WriteTest ==
    /\ qpc = "test"
    /\ qfiles' = IF InSplits("test", qconf.splits)
                 THEN [qfiles EXCEPT ![TEST_CSV] = FileOf(qconf, qrun)]
                 ELSE qfiles
    /\ qpc' = "save"
    /\ UNCHANGED <<qconf, qrun, qdone>>
    /\ UNCHANGED notQ

\* save_pkl(conf, save_opt), the last statement of the preparation
SaveOptions ==
    /\ qpc = "save"
    /\ qfiles' = [qfiles EXCEPT ![OPT_FILE] = FileOf(qconf, qrun)]
    /\ qdone' = qdone \cup {qrun}
    /\ qpc' = "returned"
    /\ UNCHANGED <<qconf, qrun>>
    /\ UNCHANGED notQ

\* the process is stopped, or a step raises, before the preparation ends
Interrupt ==
    /\ qpc \in {"train", "dev", "test", "save"}
    /\ qpc' = "interrupted"
    /\ UNCHANGED <<qconf, qfiles, qrun, qdone>>
    /\ UNCHANGED notQ

NextPrepare ==
    \/ PrepareCall \/ WriteTrain \/ WriteDev \/ WriteTest \/ SaveOptions
    \/ Interrupt

SpecPrepare == InitPrepare /\ [][NextPrepare]_vars

\* ------------------------------------------- ConcatDatasetBatchSampler
MaxSets == 2
MaxSize == 3

\* the first value of dataset j is j times this (datasets count from 0)
ValueStep == 6

\* TensorDataset(torch.arange(j * ValueStep, j * ValueStep + n)), for the
\* dataset number j from 1
DatasetOf(j, n) == [k \in 1..n |-> (j - 1) * ValueStep + (k - 1)]

\* the orders of the indices 0..n-1
IndexOrders(n) ==
    {o \in [1..n -> 0..(n - 1)] : \A a, b \in 1..n : a # b => o[a] # o[b]}

RECURSIVE SumTo(_, _)
SumTo(sizes, j) == IF j = 0 THEN 0 ELSE sizes[j] + SumTo(sizes, j - 1)

\* ConcatDataset(datasets)[idx]: the dataset is the first one whose
\* cumulative size exceeds idx
ConcatItem(sizes, idx) ==
    LET d == CHOOSE j \in 1..Len(sizes) :
                 SumTo(sizes, j - 1) <= idx /\ idx < SumTo(sizes, j)
    IN  DatasetOf(d, sizes[d])[idx - SumTo(sizes, d - 1) + 1]

MinSize(sizes) ==
    CHOOSE m \in {sizes[j] : j \in 1..Len(sizes)} :
        \A j \in 1..Len(sizes) : m <= sizes[j]

\* the batch number b (from 1) of ConcatDatasetBatchSampler, without the
\* place of the datasets in the concatenation
ConcatBatch_nooffset(sizes, orders, b) ==
    [j \in 1..Len(sizes) |-> orders[j][b]]

\* the batch number b (from 1) of ConcatDatasetBatchSampler with batch
\* sizes [1, ..., 1]: one index of each sampler, moved to the place of its
\* dataset in the concatenation
ConcatBatch(sizes, orders, b) ==
    [j \in 1..Len(sizes) |-> SumTo(sizes, j - 1) + orders[j][b]]

\* len(ConcatDatasetBatchSampler): the batches of the shortest sampler
ConcatLen(sizes) == MinSize(sizes)

InitSampler ==
    /\ zpc = "concat"
    /\ \E n \in 1..MaxSets :
        /\ zsizes \in [1..n -> 1..MaxSize]
        /\ zorders \in [1..n -> UNION {IndexOrders(m) : m \in 1..MaxSize}]
        /\ \A j \in 1..n : Len(zorders[j]) = zsizes[j]
    /\ zbatches = <<>>
    /\ concat_data = <<>>
    /\ non_cat_data = <<>>
    /\ EarlierIdle
    /\ AsrIdle
    /\ LexiconIdle
    /\ PrepareIdle

\* one turn of the loop over the loader of the concatenation
ConcatLoad ==
    /\ zpc = "concat"
    /\ Len(zbatches) < ConcatLen(zsizes)
    /\ LET batch == ConcatBatch(zsizes, zorders, Len(zbatches) + 1) IN
        /\ zbatches' = Append(zbatches, batch)
        /\ concat_data' = Append(concat_data,
               [j \in 1..Len(batch) |-> ConcatItem(zsizes, batch[j])])
    /\ UNCHANGED <<zpc, zsizes, zorders, non_cat_data>>
    /\ UNCHANGED notZ

ConcatEnd ==
    /\ zpc = "concat"
    /\ Len(zbatches) = ConcatLen(zsizes)
    /\ zpc' = "alone"
    /\ UNCHANGED <<zsizes, zorders, zbatches, concat_data, non_cat_data>>
    /\ UNCHANGED notZ

\* one turn of the loop over the samplers: the loader of the sampler alone
\* over its own dataset
AloneLoad ==
    /\ zpc = "alone"
    /\ Len(non_cat_data) < Len(zsizes)
    /\ LET j == Len(non_cat_data) + 1 IN
        non_cat_data' = Append(non_cat_data,
            [k \in 1..zsizes[j] |->
                DatasetOf(j, zsizes[j])[zorders[j][k] + 1]])
    /\ UNCHANGED <<zpc, zsizes, zorders, zbatches, concat_data>>
    /\ UNCHANGED notZ

\* non_cat_data cut to minlen and transposed
CutTransposed(data) ==
    LET minlen == MinSize([j \in 1..Len(data) |-> Len(data[j])])
    IN  [b \in 1..minlen |-> [j \in 1..Len(data) |-> data[j][b]]]

\* the end of the first part of the test: assert_array_equal
Compare ==
    /\ zpc = "alone"
    /\ Len(non_cat_data) = Len(zsizes)
    /\ zpc' = IF CutTransposed(non_cat_data) = concat_data
              THEN "passed"
              ELSE "failed"
    /\ UNCHANGED <<zsizes, zorders, zbatches, concat_data, non_cat_data>>
    /\ UNCHANGED notZ

NextSampler == ConcatLoad \/ ConcatEnd \/ AloneLoad \/ Compare

SpecSampler == InitSampler /\ [][NextSampler]_vars

Next == Sort \/ Merge \/ Distribute \/ Write

Spec == Init /\ [][Next]_vars

NextMergeTwice == Sort \/ Merge \/ MergeAgain

SpecMergeTwice == Init /\ [][NextMergeTwice]_vars

\* ------------------------------------------------------------ claims
\* the list that do_sc holds in lol, by value
Out == Values(heap, lol)

\* do_sc has finished both passes on the scenario of the specification
ScenarioRun ==
    /\ pc \in {"write", "raised"}
    /\ Len(srt) = 5
    /\ \A j \in 1..5 : srt[j] = Seg(ScenarioTimes[j][1], ScenarioTimes[j][2], ScenarioLabels[j])

ScenarioExpected ==
    <<Seg(0, 6, "A"), Seg(6, 9, "B"), Seg(9, 11, "A"), Seg(11, 14, "B")>>

\* C1: merge then overlap redistribution on the scenario [A,A,B,A,B] with
\* times (0,2),(1,3),(3,5),(4,6),(5,7) returns exactly A:(0,3), B:(3,4.5),
\* A:(4.5,5.5), B:(5.5,7), in that order.
C1_ScenarioOutput == ScenarioRun => (pc = "write" /\ Out = ScenarioExpected)

\* both passes were called (merge returned) on an input of at least two runs
TwoRunsDone ==
    /\ pc \in {"write", "raised"}
    /\ Len(acc) = 1
    /\ Len(mrg) + Len(acc) >= 2

\* C2: for every start-sorted input with at least two resulting runs, the
\* last segment of the final output carries the speaker and the end time
\* of the run that the merge pass still held as its accumulator.
C2_PendingRunFlushed ==
    TwoRunsDone =>
        /\ pc = "write"
        /\ Len(Out) >= 1
        /\ Last(Out).spkr = acc[1].spkr
        /\ Last(Out).end = acc[1].end

\* C3: the list returned by merge followed by overlap redistribution is
\* ordered by start time and no two of its segments overlap in time.
C3_OrderedNonOverlapping ==
    pc = "write" =>
        \A j \in 1..Len(Out), k \in 1..Len(Out) :
            j < k => (Out[j].start <= Out[k].start /\ Out[j].end <= Out[k].start)

\* C4: every segment of the merge pass output and every segment of the
\* overlap redistribution output has end > start.
C4_EndAfterStart ==
    /\ pc \in {"distribute", "write"} => \A j \in 1..Len(mrg) : mrg[j].end > mrg[j].start
    /\ pc = "write" => \A j \in 1..Len(Out) : Out[j].end > Out[j].start

\* C5: for every consecutive pair (cur, next) of the overlap pass's input
\* with overlap d = cur.end - next.start > 0, the output has
\* cur.end_new = cur.end - d/2 and next.start_new = next.start + d/2 (twice
\* each new boundary is cur.end + next.start), so no gap or overlap remains.
C5_MidpointBoundary ==
    pc = "write" =>
        \A j \in 1..(Len(mrg) - 1) :
            mrg[j].end - mrg[j + 1].start > 0 =>
                /\ Len(Out) >= j + 1
                /\ 2 * Out[j].end = mrg[j].end + mrg[j + 1].start
                /\ 2 * Out[j + 1].start = mrg[j].end + mrg[j + 1].start
                /\ Out[j + 1].start - Out[j].end = 0

C5_Witness ==
    /\ pc = "write"
    /\ \E j \in 1..(Len(mrg) - 1) :
        /\ mrg[j].end - mrg[j + 1].start > 0
        /\ Out[j].end < mrg[j].end
        /\ Out[j + 1].start > mrg[j + 1].start

\* C6: running merge_ssegs_same_speaker on the output of
\* merge_ssegs_same_speaker returns a list equal to that output.
C6_MergeIdempotent ==
    (pc = "merged_twice" \/ (pc = "raised" /\ Len(acc) = 1)) =>
        (pc = "merged_twice" /\ Out = mrg)

\* C7: in the output of the merge pass no two adjacent segments have the
\* same speaker together with overlapping or touching times, and every
\* pair that the overlap pass finds overlapping has two different speakers.
C7_NoSameSpeakerOverlap ==
    /\ \A j \in 1..(Len(mrg) - 1) :
        ~(mrg[j].spkr = mrg[j + 1].spkr /\ mrg[j + 1].start <= mrg[j].end)
    /\ \A j \in 1..Len(ovl) : ovl[j][1].spkr # ovl[j][2].spkr

C7_Witness ==
    /\ pc = "write"
    /\ Len(ovl) >= 1
    /\ \E j \in 1..(Len(mrg) - 1) : mrg[j].spkr = mrg[j + 1].spkr

\* the clusters returned partition the original indices 0..N-1
Members(cl) == UNION {{cl[c][j] : j \in 1..Len(cl[c])} : c \in DOMAIN cl}

TotalSize(cl) ==
    LET RECURSIVE Sum(_)
        Sum(S) == IF S = {} THEN 0
                  ELSE LET c == CHOOSE x \in S : TRUE IN Len(cl[c]) + Sum(S \ {c})
    IN Sum(DOMAIN cl)

Partition(cl, n) ==
    /\ \A c \in DOMAIN cl : Len(cl[c]) >= 1
    /\ Members(cl) = 0..(n - 1)
    /\ TotalSize(cl) = n

\* C8: for N >= K >= 1 and a valid merge record list the trace back with
\* oracle_num_spkrs = K returns exactly K non-empty clusters that contain
\* each original index 0..N-1 exactly once.
C8_ClusterCount ==
    (tpc = "done" /\ N >= oracle_num_spkrs /\ oracle_num_spkrs >= 1) =>
        (Cardinality(DOMAIN clusters) = oracle_num_spkrs /\ Partition(clusters, N))

\* C9: when N is at most the requested cluster count K the solver returns
\* N singleton clusters, one per embedding.
C9_DegenerateSingletons ==
    (tpc = "done" /\ oracle_num_spkrs >= 1 /\ N <= oracle_num_spkrs) =>
        /\ Cardinality(DOMAIN clusters) = N
        /\ \A c \in DOMAIN clusters : Len(clusters[c]) = 1
        /\ Members(clusters) = 0..(N - 1)

\* C10: when oracle_num_spkrs is falsy the trace back applies all N-1 merge
\* records and returns a single cluster that contains all N original indices.
C10_FullTraceback ==
    (tpc = "done" /\ oracle_num_spkrs = 0) =>
        /\ i = N - 1
        /\ Cardinality(DOMAIN clusters) = 1
        /\ Partition(clusters, N)

C10_Witness ==
    /\ tpc = "done"
    /\ oracle_num_spkrs = 0
    /\ N >= 3
    /\ i = N - 1

\* C11: a recording with zero sub-segments ends in an error: the merge pass
\* never returns for an empty segment list, and no RTTM file is ever written
\* for it nor with an empty segmentation.
C11_EmptyRejected ==
    /\ Len(heap) = 0 => (pc \in {"sort", "merge", "raised"} /\ rttm = <<>>)
    /\ pc = "raised" => rttm = <<>>
    /\ rttm # <<>> => (Len(heap) > 0 /\ Len(rttm[1]) > 0)

C11_Witness == Len(heap) = 0 /\ pc = "raised" /\ exc = "IndexError"

\* C12: write_rttm emits one line per segment, in the order of the list,
\* each of exactly 10 fields: SPEAKER, the recording id, 0, the start, the
\* duration end - start, <NA>, <NA>, the speaker label, <NA>, <NA>; the
\* recording id of every line is the one shared by the segments.
C12_RttmLines ==
    pc = "done" =>
        /\ Len(rttm) = 1
        /\ Len(rttm[1]) = Len(Out)
        /\ \A j \in 1..Len(Out) :
            LET line == rttm[1][j] IN
            /\ Len(line) = 10
            /\ line[1] = "SPEAKER" /\ line[3] = "0"
            /\ line[2] = Out[j].rec
            /\ line[4] = Out[j].start * TenThousandthsPerTick
            /\ line[5] = (Out[j].end - Out[j].start) * TenThousandthsPerTick
            /\ line[6] = "<NA>" /\ line[7] = "<NA>"
            /\ line[8] = Out[j].spkr
            /\ line[9] = "<NA>" /\ line[10] = "<NA>"

C12_Witness == pc = "done" /\ Len(rttm) = 1 /\ Len(rttm[1]) >= 3

\* the recording that a line of an RTTM file belongs to: its second field
LineRec(line) == Split(line, " ")[2]

\* the recording of a sub-segment id: the id without its last two fields
RowRec(row) ==
    LET f == Split(row, "_") IN Join(SubSeq(f, 1, Len(f) - 2), "_")

\* C13: the oracle speaker count used for a recording equals the number of
\* SPKR-INFO lines of the reference RTTM that belong to that recording.
C13_OracleCount ==
    \A j \in 1..Len(used_k) :
        used_k[j] = Cardinality({m \in 1..Len(ref_rttm) :
                        /\ StartsWith(ref_rttm[m], SpkrInfoWord)
                        /\ LineRec(ref_rttm[m]) = all_rec_ids[j]})

ConcatInOrder(d, order) ==
    LET RECURSIVE Cat(_)
        Cat(j) == IF j > Len(order) THEN <<>> ELSE d[order[j]] \o Cat(j + 1)
    IN Cat(1)

RecIdSet == {all_rec_ids[j] : j \in 1..Len(all_rec_ids)}

\* C14: after diarizer finishes a split the aggregate holds, exactly once
\* each, the lines of the files written for the recordings of the split and
\* nothing else, and it is written only after every recording was diarized.
C14_Aggregate ==
    /\ dpc = "done" =>
        /\ rk = Len(all_rec_ids) + 1
        /\ DOMAIN dir = RecIdSet \cup {AggName}
        /\ \A r \in RecIdSet : dir[r] # StaleLines
        /\ \E order \in Orders(RecIdSet) : dir[AggName] = ConcatInOrder(dir, order)
    /\ dpc \in {"start", "loop", "raised"} =>
        (AggName \in DOMAIN dir => dir[AggName] = StaleLines)

\* C15: every sub-segment is grouped and diarized under the recording id
\* obtained by removing the last two underscore-delimited fields of its id,
\* so the segment list of a recording holds only its own sub-segments.
C15_GroupedByRecording ==
    /\ \A j \in 1..Len(grouped) : \A m \in 1..Len(grouped[j]) :
        RowRec(grouped[j][m]) = all_rec_ids[j]
    /\ dpc \in {"loop", "done"} =>
        \A j \in 2..Len(full_csv) : RowRec(full_csv[j]) \in RecIdSet

\* what do_sc makes of the sub-segments of one recording when nothing else
\* runs: the exception, the final list by value and the file
Pipeline(segs) ==
    LET l0 == SortByStart(segs, [j \in 1..Len(segs) |-> j])
        m == merge_ssegs_same_speaker(segs, l0)
        d == distribute_overlap(m.heap, m.ret)
        f == write_rttm(d.heap, d.ret)
    IN IF m.exc # "" THEN [exc |-> m.exc, segs |-> <<>>, file |-> <<>>]
       ELSE IF d.exc # "" THEN [exc |-> d.exc, segs |-> <<>>, file |-> <<>>]
       ELSE [exc |-> f.exc, segs |-> Values(d.heap, d.ret), file |-> f.file]

\* C16: workers that process one recording each, their steps interleaved in
\* any order, end each with the segment list and the RTTM file (or the
\* exception) that processing its recording alone gives.
C16_WorkersIndependent ==
    \A w \in DOMAIN wpc :
        /\ wpc[w] = "done" =>
            /\ Pipeline(win[w]).exc = ""
            /\ Values(wheap, wlol[w]) = Pipeline(win[w]).segs
            /\ wfile[w] = Pipeline(win[w]).file
        /\ wpc[w] = "raised" =>
            /\ wexc[w] = Pipeline(win[w]).exc
            /\ wfile[w] = <<>>

C16_Witness ==
    /\ DOMAIN wpc = Workers
    /\ \A w \in Workers : wpc[w] = "done" /\ Len(wfile[w][1]) >= 2
    /\ [j \in 1..Len(win[1]) |-> win[1][j].spkr] # [j \in 1..Len(win[2]) |-> win[2][j].spkr]

\* equality and sum of fractions
SameRate(x, y) == x.num * y.den = y.num * x.den

AddRates(x, y) == [num |-> x.num * y.den + y.num * x.den, den |-> x.den * y.den]

RECURSIVE TotalError(_, _)
TotalError(recs, j) ==
    IF j > Len(recs) THEN 0
    ELSE recs[j].ms + recs[j].fa + recs[j].ser + TotalError(recs, j + 1)

RECURSIVE TotalScored(_, _)
TotalScored(recs, j) ==
    IF j > Len(recs) THEN 0 ELSE recs[j].total + TotalScored(recs, j + 1)

ExampleScores ==
    <<[ms |-> 2, fa |-> 1, ser |-> 0, total |-> 10],
      [ms |-> 0, fa |-> 0, ser |-> 3, total |-> 20]>>

\* C17: the reported DER is the error durations summed over the recordings
\* divided by the scored durations summed over the recordings, it equals
\* MS + FA + SER, and it is 20% for (2,1,0) over 10 with (0,0,3) over 20.
C17_SummedBeforeDividing ==
    spc = "done" =>
        /\ SameRate(rates.DER, Percent(TotalError(srecs, 1), TotalScored(srecs, 1)))
        /\ SameRate(rates.DER, AddRates(rates.MS, AddRates(rates.FA, rates.SER)))
        /\ srecs = ExampleScores => SameRate(rates.DER, [num |-> 20, den |-> 1])

C17_Witness ==
    /\ spc = "done"
    /\ srecs = ExampleScores
    /\ rates.DER = [num |-> 600, den |-> 30]

\* the permutations of 0..S-1, as a set
AllPerms(S) == {p \in [1..S -> 0..(S - 1)] : \A x, y \in 1..S : p[x] = p[y] => x = y}

MinLoss(pred, target) ==
    LET costs == {PermLoss(loss_mat_of(pred, target), p) : p \in AllPerms(Len(pred))}
    IN CHOOSE m \in costs : \A c \in costs : m <= c

IsPermutedCopy(x, y) ==
    Len(x) = Len(y) /\ \E q \in AllPerms(Len(y)) : x = [u \in 1..Len(y) |-> y[q[u] + 1]]

DistinctSources(t) == \A x, y \in 1..Len(t) : t[x] = t[y] => x = y

\* C18: the loss returned for an example is the least, over the permutations
\* p of the sources, of the mean of loss_mat[i, p[i]]; two examples whose
\* predictions differ by the order of the sources get the same loss, and a
\* prediction that is the target with its sources permuted gets loss 0.
C18_PitMinimum ==
    /\ \A b \in 1..Len(losses) :
        /\ losses[b] = MinLoss(preds[b], ptargets[b])
        /\ IsPermutedCopy(preds[b], ptargets[b]) => losses[b] = 0
    /\ \A a, b \in 1..Len(losses) :
        (ptargets[a] = ptargets[b] /\ IsPermutedCopy(preds[a], preds[b]))
            => losses[a] = losses[b]

C18_Witness ==
    /\ ppc = "returned"
    /\ Len(losses) = 2
    /\ Len(preds[1]) = 3
    /\ preds[1] # preds[2]
    /\ losses[1] > 0
    /\ perms[1] # perms[2]

\* C19: each returned permutation is a permutation of 0..S-1 that attains
\* the least loss, and reorder_tensor pairs source i of the result with
\* source i of the target at that loss; a prediction that is the target
\* with its pairwise distinct sources permuted is reordered to the target.
C19_PermAligns ==
    /\ \A b \in 1..Len(perms) :
        /\ perms[b] \in AllPerms(Len(preds[b]))
        /\ PermLoss(loss_mat_of(preds[b], ptargets[b]), perms[b])
               = MinLoss(preds[b], ptargets[b])
    /\ ppc = "reordered" =>
        \A b \in 1..Len(preds) :
            /\ PermLoss(loss_mat_of(reordered[b], ptargets[b]),
                        [u \in 1..Len(preds[b]) |-> u - 1]) = losses[b]
            /\ (IsPermutedCopy(preds[b], ptargets[b]) /\ DistinctSources(ptargets[b]))
                   => reordered[b] = ptargets[b]

C19_Witness ==
    /\ ppc = "reordered"
    /\ IsPermutedCopy(preds[1], ptargets[1])
    /\ DistinctSources(ptargets[1])
    /\ perms[1] = <<1, 2, 0>>
    /\ reordered[1] = ptargets[1]

\* C20: truncate returns both tensors cut to the shorter of the two lengths
\* when the lengths differ by at most allowed_len_diff, and raises
\* ValueError without returning when they differ by more.
C20_TruncateEqualLengths ==
    trpc \in {"returned", "raised"} =>
        LET shorter == IF Len(predictions) < Len(targets)
                       THEN Len(predictions) ELSE Len(targets)
        IN IF Abs(Len(predictions) - Len(targets)) <= allowed_len_diff
           THEN /\ trpc = "returned"
                /\ tret = <<SubSeq(predictions, 1, shorter), SubSeq(targets, 1, shorter)>>
                /\ Len(tret[1]) = Len(tret[2])
           ELSE trpc = "raised" /\ tret = <<>>

C20_Witness ==
    /\ trpc = "returned"
    /\ Len(predictions) = Len(targets) + allowed_len_diff
    /\ allowed_len_diff > 0
    /\ tret[1] # predictions
    /\ tret[2] = targets

\* C26: for every non-empty start-sorted list the merge pass followed by the
\* overlap pass ends without an exception and returns a non-empty list.
C26_CompletesNonEmpty ==
    (Len(srt) > 0 /\ pc \in {"write", "done", "raised"}) =>
        (pc # "raised" /\ Len(lol) >= 1)

\* C27: on a list of at least two segments returned by the merge pass, each
\* with end > start, the overlap pass returns as many segments with the same
\* recording ids and speakers in the same order, leaves the first start and
\* the last end as they were, and changes a start or an end only where the
\* segment overlaps its neighbour.
C27_OnlyBoundariesMove ==
    (pc \in {"write", "done"} /\ Len(mrg) >= 2
        /\ \A j \in 1..Len(mrg) : mrg[j].end > mrg[j].start) =>
        /\ Len(Out) = Len(mrg)
        /\ \A j \in 1..Len(mrg) :
            /\ Out[j].rec = mrg[j].rec
            /\ Out[j].spkr = mrg[j].spkr
            /\ Out[j].start # mrg[j].start =>
                (j > 1 /\ is_overlapped(mrg[j - 1].end, mrg[j].start))
            /\ Out[j].end # mrg[j].end =>
                (j < Len(mrg) /\ is_overlapped(mrg[j].end, mrg[j + 1].start))
        /\ Out[1].start = mrg[1].start
        /\ Last(Out).end = Last(mrg).end

C27_Witness ==
    /\ pc = "write"
    /\ Len(mrg) = 3
    /\ mrg[1].spkr = mrg[2].spkr
    /\ mrg[2].end > mrg[3].start
    /\ Out[2].end < mrg[2].end
    /\ Out[1] = mrg[1]

\* the runs of the merge pass on the sorted list l of values: per run that
\* the pass closed, the start of its first sub-segment and the latest end of
\* the sub-segments it absorbed; cur is the end the accumulator has in the code
RECURSIVE RunsFrom(_, _, _, _, _, _)
RunsFrom(l, j, first, cur, latest, runs) ==
    IF j > Len(l) THEN runs
    ELSE IF is_overlapped(cur, l[j].start) /\ l[first].spkr = l[j].spkr
         THEN RunsFrom(l, j + 1, first, l[j].end,
                       IF l[j].end > latest THEN l[j].end ELSE latest, runs)
         ELSE RunsFrom(l, j + 1, j, l[j].end, l[j].end,
                       Append(runs, [start |-> l[first].start, latest |-> latest]))

ClosedRuns(l) == IF Len(l) = 0 THEN <<>> ELSE RunsFrom(l, 2, 1, l[1].end, l[1].end, <<>>)

\* C28: every segment returned by the merge pass starts at the start of the
\* first sub-segment of its run and ends at the latest end of the
\* sub-segments absorbed into it.
C28_AbsorbKeepsLatestEnd ==
    pc \in {"distribute", "write", "done"} =>
        /\ Len(mrg) = Len(ClosedRuns(srt))
        /\ \A j \in 1..Len(mrg) :
            /\ mrg[j].start = ClosedRuns(srt)[j].start
            /\ mrg[j].end = ClosedRuns(srt)[j].latest

\* C29: every merge step i of the trace back leaves N - i non-empty clusters
\* that partition 0..N-1; the two parents are gone and the new cluster
\* N + i - 1 is the members of the one followed by the members of the other.
C29_MergeStepPartition ==
    [][(tpc = "loop" /\ i' = i + 1) =>
          /\ i' \in 1..(N - 1)
          /\ Cardinality(DOMAIN clusters') = N - i'
          /\ Partition(clusters', N)
          /\ \E a \in DOMAIN clusters, b \in DOMAIN clusters :
              /\ a # b
              /\ a \notin DOMAIN clusters'
              /\ b \notin DOMAIN clusters'
              /\ (N + i' - 1) \in DOMAIN clusters'
              /\ clusters'[N + i' - 1] = clusters[a] \o clusters[b]]_vars

C29_Witness ==
    /\ tpc = "loop"
    /\ i = 2
    /\ N = 4
    /\ (N + 1) \in DOMAIN clusters
    /\ Len(clusters[N + 1]) = 3

\* the decoded texts of all chunks, one after the other
DecodedTexts(h) ==
    Flatten([k \in 1..Len(h) |-> decode_preserve_leading_space(h[k])])

\* C21: transcribe_file_streaming yields one string per chunk, and all
\* that it yields, put together, is the decoded text of the chunks with
\* at most one leading space removed: no other character is dropped.
C21_OnlyLeadingSpaceRemoved ==
    (acall = StreamingCall /\ apc = "done") =>
        /\ Len(yielded) = Len(hyps)
        /\ \/ Flatten(yielded) = DecodedTexts(hyps)
           \/ /\ DecodedTexts(hyps) # <<>>
              /\ DecodedTexts(hyps)[1] = " "
              /\ Flatten(yielded) = Tail(DecodedTexts(hyps))

\* C22: transcribe_file returns the strings that
\* transcribe_file_streaming yields for the same file, concatenated in
\* order.
C22_FileIsConcatenation ==
    (acall = FileCallName /\ apc \notin {"start", "chunks"}) =>
        /\ apc = "done"
        /\ aexc = ""
        /\ fpred = Flatten([k \in 1..Len(hyps) |-> StreamYield(hyps, k)])

HasWhitespace(t) == \E j \in 1..Len(t) : t[j] \in WhitespaceChars

\* the condition of the round trip: no whitespace in the words and in the
\* tokens, no empty token list, no word <eps>
RoundTripInput(lex) ==
    \A j \in 1..Len(lex) :
        /\ ~HasWhitespace(lex[j][1])
        /\ lex[j][1] # Eps
        /\ lex[j][2] # <<>>
        /\ \A u \in 1..Len(lex[j][2]) : ~HasWhitespace(lex[j][2][u])

\* no word and no token is the empty string
NoEmptyField(lex) ==
    \A j \in 1..Len(lex) :
        /\ lex[j][1] # <<>>
        /\ \A u \in 1..Len(lex[j][2]) : lex[j][2][u] # <<>>

LexiconFinished == lpc \in {"returned", "exited"}

\* C23: read_lexicon applied to the file that write_lexicon wrote returns
\* the list that was written, in the same order, for every lexicon without
\* whitespace in its words and tokens, without empty token list and
\* without the word <eps>.
C23_RoundTrip ==
    (lsrc = "written" /\ LexiconFinished /\ RoundTripInput(lexicon)) =>
        (lpc = "returned" /\ lans = lexicon)

\* C23, amended: the same, for lexicons whose words and tokens are not
\* empty either.
C23_RoundTripNonEmpty ==
    (/\ lsrc = "written" /\ LexiconFinished
     /\ RoundTripInput(lexicon) /\ NoEmptyField(lexicon)) =>
        (lpc = "returned" /\ lans = lexicon)

C23_Witness ==
    /\ lsrc = "written" /\ lpc = "returned"
    /\ RoundTripInput(lexicon) /\ NoEmptyField(lexicon)
    /\ Len(lexicon) = 2 /\ lexicon[1] # lexicon[2]
    /\ Len(lexicon[1][2]) = 2
    /\ lans = lexicon

BlankLine(line) == StripChars(line, WhitespaceChars) = <<>>

\* a line with a word and no token, or with the word <eps>
BadLine(line) ==
    /\ ~BlankLine(line)
    /\ \/ Len(LineFields(line)) < 2
       \/ LineFields(line)[1] = Eps

NotBlank(line) == ~BlankLine(line)

\* the entries of the lines that are not blank
ValidEntries(t) ==
    LET ls == SelectSeq(FileLines(t), NotBlank)
    IN  [j \in 1..Len(ls) |-> <<LineFields(ls[j])[1], Tail(LineFields(ls[j]))>>]

\* C30: read_lexicon skips the blank lines of the file and returns the
\* entries of the other lines, and it ends the program with exit status 1
\* when a line has a word and no token or has the word <eps>.
C30_BlankLinesSkipped ==
    (lsrc = "given" /\ LexiconFinished) =>
        IF \E j \in 1..Len(FileLines(lfile)) : BadLine(FileLines(lfile)[j])
        THEN lpc = "exited" /\ lexit = 1
        ELSE lpc = "returned" /\ lexit = 0 /\ lans = ValidEntries(lfile)

\* C24: a call of prepare_ami is skipped only if every csv file of the
\* requested splits in save_folder was written by a call that ran to the
\* end of the preparation with the configuration of the skipped call.
C24_SkipOnlyWhenDone ==
    qpc = "skipped" =>
        \A j \in 1..Len(qconf.splits) :
            LET f == qfiles[split_files(qconf.splits[j])] IN
            f # NoFile => (f.run \in qdone /\ f.conf = qconf)

====
